---- MODULE Spec2Model ----
(***************************************************************************)
(* Model of the ModGuard moderation backend (src/index.js): the two        *)
(* request handlers POST /moderate and POST /test/moderate, and the pure   *)
(* functions they use (parseAndValidateScores, generateRandomScores,       *)
(* formatResponse, the dominant-flag derivation of storeResultsInSupabase).*)
(*                                                                         *)
(* Numbers: a raw classifier value is an integer number of thousandths,    *)
(* a score is an integer number of hundredths.  JavaScript values are      *)
(* records [k |-> <typeof-like tag>, s |-> <text>] (request fields) and    *)
(* [k |-> <tag>, v |-> <thousandths>] (values of the classifier's object). *)
(*                                                                         *)
(* A handler suspends only at its awaits (key lookup, classifier call,     *)
(* insert), so each action below is one run of a handler between two       *)
(* awaits.  While one handler awaits, the event loop runs the others: the  *)
(* requests in flight interleave at their awaits.  Each has its own locals *)
(* (req[h]); the request_data table (store) is shared.                     *)
(***************************************************************************)
EXTENDS Integers, Sequences, FiniteSets, TLC

\* The request_data table accepts at most this many rows; a further insert
\* is answered with an error by the backend.
MaxStored == 2

\* Largest number of keys present in a classifier object (SpecScores).
MaxKeys == 2

(***************************************************************************)
(* Constants of the program                                                *)
(***************************************************************************)
FLAG_TYPES ==
  <<"toxicity", "harassment", "hate-speech", "sexual", "violence", "spam">>

FlagSet == {FLAG_TYPES[i] : i \in 1..Len(FLAG_TYPES)}

\* The rows of the external api_key table (column "key").
KeyStore == {"key-valid"}

(***************************************************************************)
(* JavaScript values of the request body                                   *)
(***************************************************************************)
Undefined == [k |-> "undefined", s |-> ""]
Null == [k |-> "null", s |-> ""]
Str(t) == [k |-> "string", s |-> t]
Num(t) == [k |-> "number", s |-> t]
Bool(t) == [k |-> "boolean", s |-> t]

\* ToBoolean(x): the values that `!x` takes for false.
Truthy(x) ==
  CASE x.k = "undefined" -> FALSE
    [] x.k = "null" -> FALSE
    [] x.k = "string" -> x.s # ""
    [] x.k = "number" -> x.s \notin {"0", "NaN"}
    [] x.k = "boolean" -> x.s = "true"
    [] OTHER -> TRUE

\* !content || typeof content !== "string"
ContentRejected(content) == ~Truthy(content) \/ content.k # "string"

ContentValues == {Undefined, Str(""), Num("42"), Bool("false"), Str("some text")}

ApiKeyValues ==
  {Undefined, Null, Str(""), Bool("false"), Num("0"), Str("key-valid"),
   Str("key-unknown")}

(***************************************************************************)
(* Key verification                                                        *)
(***************************************************************************)
\* How the backend answers the point lookup of verifyApiKey.
LookupOutcomes == {"ok", "error", "throws"}

\* supabase.from("api_key").select("*").eq("key", apikey).single(): the
\* {data, error} pair.  single() yields the row when exactly one row
\* matches, and an error with data null otherwise.  The filter compares the
\* column with the text of the value.
KeyLookup(apikey, outcome) ==
  IF outcome = "ok" /\ apikey.s \in KeyStore
    THEN [data |-> apikey.s, error |-> "none"]
    ELSE [data |-> "null",
          error |-> IF outcome = "ok" THEN "no single row" ELSE "lookup failed"]

\* verifyApiKey with a catch that returns true.
verifyApiKey_FailOpen(apikey, outcome) ==
  IF outcome = "throws"
    THEN "true"
    ELSE LET r == KeyLookup(apikey, outcome)
         IN IF r.data # "null" /\ r.error = "none" THEN "true" ELSE "false"

\* verifyApiKey that throws the lookup's error instead of returning false.
verifyApiKey_Rethrow(apikey, outcome) ==
  IF outcome = "throws"
    THEN "raise"
    ELSE IF outcome = "error"
      THEN "raise"
      ELSE LET r == KeyLookup(apikey, outcome)
           IN IF r.data # "null" /\ r.error = "none" THEN "true" ELSE "false"

\* verifyApiKey(apikey): "true" / "false" (the function does not raise: its
\* catch turns a rejected lookup into false).
verifyApiKey(apikey, outcome) ==
  IF outcome = "throws"
    THEN "false"
    ELSE LET r == KeyLookup(apikey, outcome)
         IN IF r.data # "null" /\ r.error = "none" THEN "true" ELSE "false"

(***************************************************************************)
(* Values of the classifier's JSON object, and parseFloat                  *)
(***************************************************************************)
RawUndefined == [k |-> "undefined", v |-> 0]
RawNum(n) == [k |-> "number", v |-> n]
\* A string that starts with a decimal number, such as "0.7".
RawNumStr(n) == [k |-> "numstring", v |-> n]
\* A string that does not, such as "abc".
RawText == [k |-> "text", v |-> 0]
RawNull == [k |-> "null", v |-> 0]
RawBool == [k |-> "boolean", v |-> 0]
\* A nested object, such as {"a": 1}: its string is "[object Object]".
RawObject == [k |-> "object", v |-> 0]
\* A nested object whose own toString is not callable, such as
\* {"toString": 1}: converting it to a string raises TypeError (valueOf
\* returns the object itself, which is no primitive).
RawNoPrimitive == [k |-> "noprimitive", v |-> 0]

\* parseFloat(x): a number, NaN, or a raised TypeError.
parseFloat(x) ==
  CASE x.k \in {"number", "numstring"} -> [t |-> "num", v |-> x.v]
    [] x.k = "noprimitive" -> [t |-> "throw", v |-> 0]
    [] OTHER -> [t |-> "nan", v |-> 0]

Min(a, b) == IF a < b THEN a ELSE b
Max(a, b) == IF a > b THEN a ELSE b

\* Math.max(0, Math.min(1, value)), in thousandths.
\* The clamp without Math.min(1, value).
ClampUnit_NoUpper(v) == Max(0, v)
ClampUnit(v) == Max(0, Min(1000, v))

\* The thousandths x in [0, 1] for which the double x * 100 lies just below
\* the half, so that Math.round rounds it down (0.285 * 100 is
\* 28.499999999999996).
DoubleRoundsDown == {145, 285, 565, 575}

\* Math.round(x * 100) / 100 for x in thousandths, in hundredths.
RoundHundredths(v) ==
  IF v \in DoubleRoundsDown THEN v \div 10 ELSE (v + 5) \div 10

\* The body of the forEach of parseAndValidateScores for one value.
ValidateValue(raw) ==
  LET pf == parseFloat(raw)
      value == IF pf.t = "nan" THEN 0 ELSE pf.v
  IN RoundHundredths(ClampUnit(value))

(***************************************************************************)
(* The classifier's reply and parseAndValidateScores                       *)
(***************************************************************************)
EmptyObject == [f \in FlagSet |-> RawUndefined]

\* A reply: how the HTTP call ended and, when it carried a textual payload,
\* the JSON value the text denotes ("notjson": the text is not JSON) with
\* the flag entries of the object when it denotes an object.
Reply(kind, json, obj) == [k |-> kind, json |-> json, obj |-> obj]

TransportFailures == {"timeout", "network", "non2xx", "nochoices"}
JsonKinds == {"notjson", "null", "number", "string", "boolean", "array", "object"}

\* JSON.parse(aiResponse): raises SyntaxError on text that is not JSON.
JSONParse(reply) ==
  IF reply.json = "notjson"
    THEN [ok |-> FALSE, json |-> "notjson", obj |-> EmptyObject]
    ELSE [ok |-> TRUE, json |-> reply.json, obj |-> reply.obj]

\* scores[flag]: a property read raises TypeError on null, and yields
\* undefined on a number, string, boolean or array (no Flag Type names a
\* property of these).
PropertyReadRaises(parsed) == parsed.json = "null"
Property(parsed, flag) ==
  IF parsed.json = "object" THEN parsed.obj[flag] ELSE RawUndefined

Failure == [ok |-> FALSE, scores |-> [f \in FlagSet |-> 0]]

\* parseAndValidateScores(aiResponse): ok with the validated mapping, or not
\* ok: the Error("Invalid AI response format") of its catch, which any
\* exception of the try block turns into.
parseAndValidateScores(reply) ==
  LET parsed == JSONParse(reply)
  IN IF ~parsed.ok \/ PropertyReadRaises(parsed)
       THEN Failure
       ELSE IF \E f \in FlagSet : parseFloat(Property(parsed, f)).t = "throw"
         THEN Failure
         ELSE [ok |-> TRUE,
               scores |-> [f \in FlagSet |-> ValidateValue(Property(parsed, f))]]

\* analyzeContentWithAI(content): axios.post raises on a timeout, a network
\* error and a non-2xx status; response.data.choices[0].message.content
\* raises when the reply lacks the fields; every error is rethrown.
analyzeContentWithAI(reply) ==
  IF reply.k \in TransportFailures THEN Failure ELSE parseAndValidateScores(reply)

(***************************************************************************)
(* Fallback scores, response formatting, dominant flag                     *)
(***************************************************************************)
\* generateRandomScores without the rounding to hundredths.
generateRandomScores_Unrounded(draws) == [f \in FlagSet |-> draws[f]]

\* generateRandomScores(): draws[f] is the value of Math.random() for flag
\* f, in thousandths of [0, 1).
generateRandomScores(draws) == [f \in FlagSet |-> RoundHundredths(draws[f])]

\* formatResponse(scores); `x || 0` is x for every number but 0 and NaN.
formatResponse(scores) ==
  [i \in 1..Len(FLAG_TYPES) |->
     [flag_type |-> FLAG_TYPES[i],
      value |-> IF scores[FLAG_TYPES[i]] = 0 THEN 0 ELSE scores[FLAG_TYPES[i]]]]

\* The initial value of the reduce: { flag_type: null, value: -1 }.
Sentinel == [flag_type |-> "null", value |-> -100]

RECURSIVE Reduce(_, _, _)
\* results.reduce((max, current) => current.value > max.value ? current : max, max)
\* from element i on.
Reduce(results, i, max) ==
  IF i > Len(results)
    THEN max
    ELSE Reduce(results, i + 1,
                IF results[i].value > max.value THEN results[i] ELSE max)

RECURSIVE ReduceLast(_, _, _)
\* The reduce with >= for >: the last maximal record wins.
ReduceLast(results, i, max) ==
  IF i > Len(results)
    THEN max
    ELSE ReduceLast(results, i + 1,
                    IF results[i].value >= max.value THEN results[i] ELSE max)

MaxFlag_LastWins(results) == ReduceLast(results, 1, Sentinel)

MaxFlag(results) == Reduce(results, 1, Sentinel)

\* The status of storeResultsInSupabase: >= 0.7, < 0.3, otherwise.
StatusOf(value) ==
  IF value >= 70 THEN "flagged" ELSE IF value < 30 THEN "clean" ELSE "borderline"

\* The row that storeResultsInSupabase hands to insert.
StoredResult(apikey, content, results) ==
  LET maxFlag == MaxFlag(results)
  IN [api_key |-> apikey.s,
      content |-> content.s,
      content_type |-> "text",
      flags |-> [type |-> maxFlag.flag_type,
                 score |-> maxFlag.value,
                 flagged |-> maxFlag.value >= 50],
      user_id |-> "null",
      status |-> StatusOf(maxFlag.value)]


(***************************************************************************)
(* State                                                                   *)
(***************************************************************************)
\* The handler invocations that can be in flight together.
Handlers == {"a", "b"}

VARIABLES
  req,    \* req[h]: the locals of the handler invocation h (see IdleReq)
  store   \* the rows of the request_data table

vars == <<req, store>>

NoReply == Reply("none", "notjson", EmptyObject)
NoRow == StoredResult(Str(""), Str(""), <<>>)
NoScores == [f \in FlagSet |-> 0]
NoBody == [error |-> "", details |-> "", flags |-> <<>>]

\* The locals of an invocation that serves no request.
IdleReq ==
  [pc |-> "idle",             \* "idle", the await it is suspended at, "done"
   endpoint |-> "none",       \* "/moderate" or "/test/moderate"
   content |-> Undefined,     \* req.body.content
   apikey |-> Undefined,      \* req.body.apikey
   lookup |-> "none",         \* how the key lookup ended ("none": not made)
   aiReply |-> NoReply,       \* the classifier's reply
   usedFallback |-> FALSE,    \* generateRandomScores() supplied the scores
   scores |-> NoScores,       \* the local `scores`
   response |-> <<>>,         \* the Flag Record sequence of formatResponse
   pending |-> NoRow,         \* the row handed to insert, while it is awaited
   status |-> 0,              \* the HTTP status sent (0: no response yet)
   body |-> NoBody,           \* the JSON body sent
   calls |-> <<>>,            \* the collaborator calls made, in order
   rowIdx |-> 0]              \* the place in the table of the row it inserted

(***************************************************************************)
(* Inputs of the request pipeline                                          *)
(***************************************************************************)
\* Values of Math.random(), in thousandths: 0 gives 0, 0.285 gives 0.28,
\* 0.999 gives 1.
RandomDraws == {0, 285, 999}

\* The draws of one generateRandomScores() call: all 0, or the first flag
\* at 0.285 and the last at 0.999.
DrawSets ==
  {[f \in FlagSet |-> 0],
   [f \in FlagSet |->
      IF f = "toxicity" THEN 285 ELSE IF f = "spam" THEN 999 ELSE 0]}
NoDraws == [f \in FlagSet |-> 0]

OneKey(flag, raw) == [f \in FlagSet |-> IF f = flag THEN raw ELSE RawUndefined]

\* The object {"toxicity": -3, "harassment": "abc", "sexual": null,
\* "violence": 1.499, "spam": 0.285}: a negative entry, two non-numeric
\* entries, a missing entry, an entry above 1 and one inside the range.
MixedObject ==
  [f \in FlagSet |->
     CASE f = "toxicity" -> RawNum(-3000)
       [] f = "harassment" -> RawText
       [] f = "sexual" -> RawNull
       [] f = "violence" -> RawNum(1499)
       [] f = "spam" -> RawNum(285)
       [] OTHER -> RawUndefined]

PipelineReplies ==
  {Reply(k, "notjson", EmptyObject) : k \in TransportFailures}
    \cup {Reply("payload", j, EmptyObject) :
            j \in {"notjson", "null", "number", "object"}}
    \cup {Reply("payload", "object", MixedObject),
          Reply("payload", "object", OneKey("toxicity", RawNoPrimitive))}

(***************************************************************************)
(* The handlers                                                            *)
(***************************************************************************)
\* The validation with the apikey check ahead of the content check.
Validate_KeyFirst(c, a) ==
  IF ~Truthy(a) THEN 401 ELSE IF ContentRejected(c) THEN 400 ELSE 0

\* The response of the validation of POST /moderate (0: validation passed).
Validate(c, a) ==
  IF ContentRejected(c) THEN 400 ELSE IF ~Truthy(a) THEN 401 ELSE 0

ErrorText(code) ==
  CASE code = 400 -> "Valid content string is required"
    [] code = 401 -> "API key is required"
    [] code = 403 -> "Invalid API key"
    [] OTHER -> "Internal server error"

\* res.status(code).json({ error, details }) and return, on the locals r.
RespondError(r, code, details) ==
  [r EXCEPT !.pc = "done",
            !.status = code,
            !.body = [error |-> ErrorText(code), details |-> details,
                      flags |-> <<>>]]

\* res.json(response), on the locals r.
RespondOk(r, flags) ==
  [r EXCEPT !.pc = "done",
            !.status = 200,
            !.body = [error |-> "", details |-> "", flags |-> flags]]

\* The classification without its catch: the error reaches the handler's catch.
ScoresOrFallback_Propagate(reply, draws) ==
  LET a == analyzeContentWithAI(reply)
  IN [raised |-> ~a.ok, fallback |-> FALSE, scores |-> a.scores]

\* try { scores = await analyzeContentWithAI(content) }
\* catch { scores = generateRandomScores() }
\* raised: an error left the block for the handler's catch (it never does).
ScoresOrFallback(reply, draws) ==
  LET a == analyzeContentWithAI(reply)
  IN [raised |-> FALSE,
      fallback |-> ~a.ok,
      scores |-> IF a.ok THEN a.scores ELSE generateRandomScores(draws)]

\* The draws a reply consumes: none when the classification succeeded.
DrawsFor(reply) == IF analyzeContentWithAI(reply).ok THEN {NoDraws} ELSE DrawSets

\* POST /moderate arrives: validation, up to the await of verifyApiKey.
ModerateReceive(h) ==
  /\ req[h].pc = "idle"
  /\ \E c \in ContentValues, a \in ApiKeyValues :
       LET r == [IdleReq EXCEPT !.endpoint = "/moderate", !.content = c,
                                !.apikey = a]
       IN req' = [req EXCEPT ![h] =
                    IF Validate(c, a) # 0
                      THEN RespondError(r, Validate(c, a), "")
                      ELSE [r EXCEPT !.pc = "verifying",
                                     !.calls = <<"keystore">>]]
  /\ UNCHANGED store

\* verifyApiKey returns: 403, or the classifier is called.  An exception
\* would reach the handler's catch (500); verifyApiKey raises none.
ModerateKeyVerified(h) ==
  /\ req[h].pc = "verifying"
  /\ \E o \in LookupOutcomes :
       LET r == [req[h] EXCEPT !.lookup = o]
           valid == verifyApiKey(r.apikey, o)
       IN req' = [req EXCEPT ![h] =
                    CASE valid = "true" ->
                           [r EXCEPT !.pc = "classifying",
                                     !.calls = Append(r.calls, "classifier")]
                      [] valid = "false" -> RespondError(r, 403, "")
                      [] OTHER -> RespondError(r, 500, "lookup failed")]
  /\ UNCHANGED store

\* The classifier call of POST /moderate ends: scores or fallback scores,
\* formatResponse, and storeResultsInSupabase up to the await of insert.
ModerateClassified(h) ==
  /\ req[h].pc = "classifying"
  /\ req[h].endpoint = "/moderate"
  /\ \E reply \in PipelineReplies :
       \E d \in DrawsFor(reply) :
         LET s == ScoresOrFallback(reply, d)
             flags == formatResponse(s.scores)
             r == [req[h] EXCEPT !.aiReply = reply, !.usedFallback = s.fallback,
                                 !.scores = s.scores]
         IN req' = [req EXCEPT ![h] =
                      IF s.raised
                        THEN RespondError(r, 500, "classification failed")
                        ELSE [r EXCEPT
                                !.response = flags,
                                !.pending = StoredResult(r.apikey, r.content, flags),
                                !.pc = "inserting",
                                !.calls = Append(r.calls, "insert")]]
  /\ UNCHANGED store

\* The insert's return without `if (error) throw error`.
ModerateInserted_IgnoreError(h) ==
  /\ req[h].pc = "inserting"
  /\ \E o \in {"ok", "error"} :
       /\ o = "ok" => Len(store) < MaxStored
       /\ store' = IF o = "ok" THEN Append(store, req[h].pending) ELSE store
       /\ req' = [req EXCEPT ![h] =
                    RespondOk([req[h] EXCEPT
                                 !.pending = NoRow,
                                 !.rowIdx = IF o = "ok" THEN Len(store) + 1 ELSE 0],
                              req[h].response)]

\* The insert returns {data, error}: the row is stored and the scores are
\* sent, or the error is thrown to the handler's catch.
ModerateInserted(h) ==
  /\ req[h].pc = "inserting"
  /\ \E o \in {"ok", "error"} :
       /\ o = "ok" => Len(store) < MaxStored
       /\ IF o = "ok"
            THEN /\ store' = Append(store, req[h].pending)
                 /\ req' = [req EXCEPT ![h] =
                              RespondOk([req[h] EXCEPT !.pending = NoRow,
                                                       !.rowIdx = Len(store) + 1],
                                        req[h].response)]
            ELSE /\ store' = store
                 /\ req' = [req EXCEPT ![h] =
                              RespondError([req[h] EXCEPT !.pending = NoRow],
                                           500, "insert failed")]

\* POST /test/moderate arrives: validation, up to the classifier call.
TestReceive(h) ==
  /\ req[h].pc = "idle"
  /\ \E c \in ContentValues :
       LET r == [IdleReq EXCEPT !.endpoint = "/test/moderate", !.content = c]
       IN req' = [req EXCEPT ![h] =
                    IF ContentRejected(c)
                      THEN RespondError(r, 400, "")
                      ELSE [r EXCEPT !.pc = "classifying",
                                     !.calls = <<"classifier">>]]
  /\ UNCHANGED store

\* The test handler with the storeResultsInSupabase call of POST /moderate.
TestClassified_Stores(h) ==
  /\ req[h].pc = "classifying"
  /\ req[h].endpoint = "/test/moderate"
  /\ \E reply \in PipelineReplies :
       \E d \in DrawsFor(reply) :
         LET s == ScoresOrFallback(reply, d)
             flags == formatResponse(s.scores)
             r == [req[h] EXCEPT !.aiReply = reply, !.usedFallback = s.fallback,
                                 !.scores = s.scores, !.response = flags]
         IN /\ req' = [req EXCEPT ![h] = RespondOk(r, flags)]
            /\ store' = IF Len(store) < MaxStored
                          THEN Append(store, StoredResult(r.apikey, r.content, flags))
                          ELSE store

\* The classifier call of POST /test/moderate ends: the scores are sent.
TestClassified(h) ==
  /\ req[h].pc = "classifying"
  /\ req[h].endpoint = "/test/moderate"
  /\ \E reply \in PipelineReplies :
       \E d \in DrawsFor(reply) :
         LET s == ScoresOrFallback(reply, d)
             flags == formatResponse(s.scores)
             r == [req[h] EXCEPT !.aiReply = reply, !.usedFallback = s.fallback,
                                 !.scores = s.scores]
         IN req' = [req EXCEPT ![h] =
                      IF s.raised
                        THEN RespondError(r, 500, "classification failed")
                        ELSE RespondOk([r EXCEPT !.response = flags], flags)]
  /\ UNCHANGED store

\* The response has been sent and the handler has returned: its locals are
\* gone, and the invocation can serve the next request.
Finish(h) ==
  /\ req[h].pc = "done"
  /\ req' = [req EXCEPT ![h] = IdleReq]
  /\ UNCHANGED store

Init ==
  /\ req = [h \in Handlers |-> IdleReq]
  /\ store = <<>>

Next ==
  \E h \in Handlers :
    \/ ModerateReceive(h)
    \/ ModerateKeyVerified(h)
    \/ ModerateClassified(h)
    \/ ModerateInserted(h)
    \/ TestReceive(h)
    \/ TestClassified(h)
    \/ Finish(h)

Spec == Init /\ [][Next]_vars

(***************************************************************************)
(* The score functions on their own: a reply is parsed and validated, a    *)
(* failure is replaced by fallback scores, and the scores are formatted    *)
(* and reduced to the row to store (lines 75-87 without the awaits).       *)
(***************************************************************************)
ScoreRaw ==
  {RawNum(n) : n \in {-3000, 0, 285, 290, 295, 490, 500, 690, 695, 800, 1499, 3000}}
    \cup {RawNumStr(700), RawText, RawNull, RawBool, RawObject}

ScoreDraws == {0, 294, 695, 999}

KeySets == {K \in SUBSET FlagSet : Cardinality(K) <= MaxKeys}

\* The object with the keys K present, holding the values o.
ObjectOver(K, o) == [f \in FlagSet |-> IF f \in K THEN o[f] ELSE RawUndefined]

\* Objects one of whose values cannot be converted to a string.
UnconvertibleObjects ==
  {OneKey(f, RawNoPrimitive) : f \in FlagSet}
    \cup {[h \in FlagSet |-> IF h = f THEN RawNoPrimitive
                             ELSE IF h = g THEN RawNum(800) ELSE RawUndefined] :
            f \in FlagSet, g \in FlagSet}

\* Payloads that are no object, and the unconvertible objects.
SpecialReplies ==
  {Reply("payload", j, EmptyObject) : j \in JsonKinds \ {"object"}}
    \cup {Reply("payload", "object", o) : o \in UnconvertibleObjects}

\* The locals of an invocation that holds the reply.
Parsing(reply) ==
  [IdleReq EXCEPT !.pc = "parse", !.content = Str("some text"),
                  !.apikey = Str("key-valid"), !.aiReply = reply]

ScoresInit ==
  /\ \/ \E reply \in SpecialReplies :
          req = [h \in Handlers |-> IF h = "a" THEN Parsing(reply) ELSE IdleReq]
     \/ \E K \in KeySets :
          \E o \in [K -> ScoreRaw] :
            req = [h \in Handlers |->
                     IF h = "a"
                       THEN Parsing(Reply("payload", "object", ObjectOver(K, o)))
                       ELSE IdleReq]
  /\ store = <<>>

\* parseAndValidateScores(aiResponse), then formatResponse and the row.
ParseStep(h) ==
  /\ req[h].pc = "parse"
  /\ LET a == parseAndValidateScores(req[h].aiReply)
         flags == formatResponse(a.scores)
     IN req' = [req EXCEPT ![h] =
                  IF a.ok
                    THEN [req[h] EXCEPT
                            !.scores = a.scores,
                            !.response = flags,
                            !.pending = StoredResult(req[h].apikey, req[h].content,
                                                     flags),
                            !.pc = "derived"]
                    ELSE [req[h] EXCEPT !.pc = "failed"]]
  /\ UNCHANGED store

\* generateRandomScores(), then formatResponse and the row.
FallbackStep(h) ==
  /\ req[h].pc = "failed"
  /\ \E d \in [FlagSet -> ScoreDraws] :
       LET flags == formatResponse(generateRandomScores(d))
       IN req' = [req EXCEPT ![h] =
                    [req[h] EXCEPT
                       !.scores = generateRandomScores(d),
                       !.response = flags,
                       !.pending = StoredResult(req[h].apikey, req[h].content, flags),
                       !.usedFallback = TRUE,
                       !.aiReply = NoReply,
                       !.pc = "derived"]]
  /\ UNCHANGED store

NextScores ==
  \E h \in Handlers :
    \/ ParseStep(h)
    \/ FallbackStep(h)

SpecScores == ScoresInit /\ [][NextScores]_vars

(***************************************************************************)
(* Properties                                                              *)
(***************************************************************************)
\* The vocabulary of the claims, stated without the operators of the model.
ContentMissingOrNotString(c) == c.k # "string" \/ c.s = ""
KeyMissing(a) == a.k \in {"undefined", "null"} \/ (a.k = "string" /\ a.s = "")
KeyFalsy(a) ==
  \/ KeyMissing(a)
  \/ (a.k = "boolean" /\ a.s = "false")
  \/ (a.k = "number" /\ a.s \in {"0", "NaN"})
KeyHasMatch(a) == a.k = "string" /\ a.s \in {"key-valid"}
DeclaredOrder ==
  <<"toxicity", "harassment", "hate-speech", "sexual", "violence", "spam">>
IsFlagRecordList(flags) ==
  /\ Len(flags) = 6
  /\ \A i \in 1..6 :
       /\ flags[i].flag_type = DeclaredOrder[i]
       /\ flags[i].value \in 0..100
Count(seq, x) == Cardinality({i \in 1..Len(seq) : seq[i] = x})
\* The failures of the classification step that the specification lists.
ListedFailure(r) ==
  \/ r.k \in {"timeout", "network", "non2xx", "nochoices"}
  \/ (r.k = "payload" /\ r.json = "notjson")
\* The classification call raised an error: a listed failure, or a payload
\* on which parseAndValidateScores raised.
CallRaised(r) ==
  \/ ListedFailure(r)
  \/ (r.k = "payload" /\ r.json = "null")
  \/ (r.k = "payload" /\ r.json = "object"
        /\ \E f \in FlagSet : r.obj[f].k = "noprimitive")
\* The largest value of a Flag Record sequence and the first place it is at.
MaxValue(flags) ==
  CHOOSE m \in {flags[i].value : i \in 1..Len(flags)} :
    \A i \in 1..Len(flags) : flags[i].value <= m
FirstAt(flags, m) ==
  CHOOSE i \in 1..Len(flags) :
    /\ flags[i].value = m
    /\ \A j \in 1..(i - 1) : flags[j].value # m

\* C1 as claimed: a POST /moderate request whose content is missing, empty
\* or not a string is answered 400 (also when the apikey is missing too);
\* otherwise a missing apikey is answered 401; otherwise an apikey without an
\* exact match in the key store is answered 403.
C1_AsClaimed ==
  \A h \in Handlers :
    (req[h].endpoint = "/moderate" /\ req[h].pc = "done") =>
      /\ ContentMissingOrNotString(req[h].content) => req[h].status = 400
      /\ (~ContentMissingOrNotString(req[h].content) /\ KeyMissing(req[h].apikey))
           => req[h].status = 401
      /\ (~ContentMissingOrNotString(req[h].content) /\ ~KeyMissing(req[h].apikey)
            /\ ~KeyHasMatch(req[h].apikey)) => req[h].status = 403

\* C1, amended: content that is missing, empty or not a string is answered
\* 400 (also when the apikey is missing too); otherwise an apikey that is
\* missing or another falsy value (empty string, false, 0, null) is answered
\* 401; otherwise an apikey without an exact match in the key store is
\* answered 403.  None of these requests is answered 200.
C1_ValidationPrecedence ==
  \A h \in Handlers :
    (req[h].endpoint = "/moderate" /\ req[h].pc = "done") =>
      /\ ContentMissingOrNotString(req[h].content) => req[h].status = 400
      /\ (~ContentMissingOrNotString(req[h].content) /\ KeyFalsy(req[h].apikey))
           => req[h].status = 401
      /\ (~ContentMissingOrNotString(req[h].content) /\ ~KeyFalsy(req[h].apikey)
            /\ ~KeyHasMatch(req[h].apikey)) => req[h].status = 403

C1_Witness ==
  \E h \in Handlers :
    /\ req[h].endpoint = "/moderate"
    /\ req[h].pc = "done"
    /\ ~ContentMissingOrNotString(req[h].content)
    /\ req[h].apikey = Bool("false")
    /\ req[h].status = 401

\* C2: on both endpoints a failed classification (timeout, network error,
\* non-2xx reply, reply without the fields, non-JSON content) is replaced by
\* fallback scores and alone never gives an error response: the request is
\* answered 200 unless the insert failed.  Fallback scores are used only
\* when the classification call raised an error.
C2_FallbackRecovers ==
  \A h \in Handlers :
    /\ (req[h].aiReply.k # "none" /\ ListedFailure(req[h].aiReply)) =>
         /\ req[h].usedFallback
         /\ req[h].pc = "done" =>
              \/ req[h].status = 200
              \/ (req[h].endpoint = "/moderate" /\ req[h].status = 500
                    /\ req[h].body.details = "insert failed")
    /\ req[h].usedFallback => CallRaised(req[h].aiReply)

C2_Witness ==
  \E h \in Handlers :
    /\ req[h].endpoint = "/moderate"
    /\ req[h].aiReply.k = "timeout"
    /\ req[h].usedFallback
    /\ req[h].status = 200

\* C3: every 200 response of either endpoint holds exactly one Flag Record
\* per Flag Type, in the declared order, each value a whole number of
\* hundredths between 0 and 100; for raw values that are missing,
\* non-numeric, negative or above 1, and for fallback scores.
C3_ResponseShape ==
  \A h \in Handlers : req[h].status = 200 => IsFlagRecordList(req[h].body.flags)

\* Both endpoints have answered 200: one from an object with a negative, a
\* non-numeric, a null, a missing and an above-1 entry, the other from
\* fallback scores.
C3_Witness ==
  \E h \in Handlers, g \in Handlers :
    /\ req[h].endpoint = "/moderate"
    /\ req[h].status = 200
    /\ ~req[h].usedFallback
    /\ req[h].aiReply.json = "object"
    /\ req[h].aiReply.obj["toxicity"] = RawNum(-3000)
    /\ req[h].aiReply.obj["harassment"] = RawText
    /\ req[h].aiReply.obj["hate-speech"] = RawUndefined
    /\ req[h].aiReply.obj["sexual"] = RawNull
    /\ req[h].aiReply.obj["violence"] = RawNum(1499)
    /\ req[h].body.flags[1].value = 0
    /\ req[h].body.flags[2].value = 0
    /\ req[h].body.flags[3].value = 0
    /\ req[h].body.flags[4].value = 0
    /\ req[h].body.flags[5].value = 100
    /\ req[h].body.flags[6].value = 28
    /\ req[g].endpoint = "/test/moderate"
    /\ req[g].status = 200
    /\ req[g].usedFallback
    /\ req[g].body.flags[1].value = 28
    /\ req[g].body.flags[6].value = 100

\* C4 as claimed: the normalizer maps a raw toxicity of 1.499 to 0.5, of -3
\* to 0 and of 3 to 1.
C4_AsClaimed ==
  \A h \in Handlers :
    (req[h].pc = "derived" /\ ~req[h].usedFallback
       /\ req[h].aiReply.json = "object") =>
      /\ req[h].aiReply.obj["toxicity"] = RawNum(1499)
           => req[h].scores["toxicity"] = 50
      /\ req[h].aiReply.obj["toxicity"] = RawNum(-3000)
           => req[h].scores["toxicity"] = 0
      /\ req[h].aiReply.obj["toxicity"] = RawNum(3000)
           => req[h].scores["toxicity"] = 100

\* C4, amended: the normalizer maps a raw toxicity of 1.499 to 1 (it is
\* clamped to the upper bound before it is rounded), of -3 to 0 and of 3
\* to 1.
C4_ClampThenRound ==
  \A h \in Handlers :
    (req[h].pc = "derived" /\ ~req[h].usedFallback
       /\ req[h].aiReply.json = "object") =>
      /\ req[h].aiReply.obj["toxicity"] = RawNum(1499)
           => req[h].scores["toxicity"] = 100
      /\ req[h].aiReply.obj["toxicity"] = RawNum(-3000)
           => req[h].scores["toxicity"] = 0
      /\ req[h].aiReply.obj["toxicity"] = RawNum(3000)
           => req[h].scores["toxicity"] = 100

C4_Witness ==
  \E h \in Handlers :
    /\ req[h].pc = "derived"
    /\ ~req[h].usedFallback
    /\ req[h].aiReply.json = "object"
    /\ req[h].aiReply.obj["toxicity"] = RawNum(1499)
    /\ req[h].scores["toxicity"] = 100

\* C5: parseAndValidateScores signals "Invalid AI response format" if and
\* only if the payload does not parse as an object (text that is not JSON,
\* JSON null, a scalar, an array); for every payload that parses as an
\* object it returns a complete mapping and does not fail.
C5_FailsIffNotObject ==
  \A h \in Handlers :
    /\ req[h].pc = "failed" => req[h].aiReply.json # "object"
    /\ (req[h].pc = "derived" /\ ~req[h].usedFallback)
         => req[h].aiReply.json = "object"

\* C6: the stored dominant flag is the first record, in enumeration order,
\* that attains the maximum value (never the null sentinel, also when all
\* values are 0); its score is the maximum; flagged is true iff the maximum
\* is >= 0.5; status is "flagged" iff the maximum is >= 0.7, "clean" iff it
\* is < 0.3, "borderline" otherwise.
C6_DominantFlag ==
  \A h \in Handlers :
    req[h].pc = "derived" =>
      LET m == MaxValue(req[h].response)
          row == req[h].pending
      IN /\ row.flags.type = DeclaredOrder[FirstAt(req[h].response, m)]
         /\ row.flags.type # "null"
         /\ row.flags.score = m
         /\ row.flags.flagged = (m >= 50)
         /\ row.status = "flagged" <=> m >= 70
         /\ row.status = "clean" <=> m < 30
         /\ row.status = "borderline" <=> (m >= 30 /\ m < 70)

C6_Witness ==
  \E h \in Handlers :
    /\ req[h].pc = "derived"
    /\ req[h].response[1].value = 80
    /\ req[h].response[6].value = 80
    /\ req[h].pending.flags.type = "toxicity"
    /\ req[h].pending.status = "flagged"

\* C7: POST /moderate answers 200 only after exactly one row for the request
\* has been inserted, its dominant flag derived from the Flag Records that
\* are returned; when the insert fails the request is answered 500 with
\* error and details, without the scores, and the insert is not retried.
C7_PersistBeforeRespond ==
  \A h \in Handlers :
    req[h].endpoint = "/moderate" =>
      /\ Count(req[h].calls, "insert") <= 1
      /\ req[h].status = 200 =>
           /\ Count(req[h].calls, "insert") = 1
           /\ req[h].rowIdx \in 1..Len(store)
           /\ \A g \in Handlers \ {h} : req[g].rowIdx # req[h].rowIdx
           /\ LET row == store[req[h].rowIdx]
                  m == MaxValue(req[h].body.flags)
              IN /\ row.api_key = req[h].apikey.s
                 /\ row.content = req[h].content.s
                 /\ row.flags.score = m
                 /\ row.flags.type =
                      req[h].body.flags[FirstAt(req[h].body.flags, m)].flag_type
      /\ (req[h].pc = "done" /\ Count(req[h].calls, "insert") = 1
            /\ req[h].status # 200) =>
           /\ req[h].status = 500
           /\ req[h].body.error # ""
           /\ req[h].body.details # ""
           /\ req[h].body.flags = <<>>
           /\ req[h].rowIdx = 0

\* A request answered 200 after the row of an overlapping request.
C7_Witness ==
  \E h \in Handlers, g \in Handlers :
    /\ req[h].endpoint = "/moderate"
    /\ req[h].status = 200
    /\ req[h].rowIdx = 2
    /\ req[g].status = 200
    /\ req[g].rowIdx = 1
    /\ store[2].flags.score = 100

\* The state part of C8.
C8_NoCalls ==
  \A h \in Handlers :
    req[h].endpoint = "/test/moderate" =>
      /\ Count(req[h].calls, "keystore") = 0
      /\ Count(req[h].calls, "insert") = 0
      /\ req[h].lookup = "none"
      /\ req[h].rowIdx = 0
      /\ (req[h].pc = "done" /\ ~ContentMissingOrNotString(req[h].content)
            /\ req[h].aiReply.k \in {"timeout", "network"}) =>
           /\ req[h].status = 200
           /\ req[h].usedFallback
           /\ IsFlagRecordList(req[h].body.flags)

\* The step part of C8: a step of a POST /test/moderate request.
C8_TestStep ==
  \E h \in Handlers : req'[h].endpoint = "/test/moderate" /\ req'[h] # req[h]

\* C8: a POST /test/moderate request calls neither the key store nor the
\* insert, and no step of it changes the stored rows; with valid content and
\* an unreachable classifier it answers 200 with valid fallback scores.
C8_TestEndpointFrame == []C8_NoCalls /\ [][C8_TestStep => store' = store]_vars

\* A test request answered while the table holds the row of a request that
\* is in flight with it.
C8_Witness ==
  \E h \in Handlers, g \in Handlers :
    /\ req[h].endpoint = "/test/moderate"
    /\ req[h].pc = "done"
    /\ req[h].aiReply.k = "network"
    /\ req[h].status = 200
    /\ req[g].rowIdx = 1
    /\ Len(store) = 1

\* C9: within POST /moderate the classifier is called and the insert is
\* attempted only after the content validation passed and the key lookup
\* completed successfully; a request answered 400, 401 or 403 calls neither,
\* and one answered 400 or 401 does not query the key store.
C9_CallOrder ==
  \A h \in Handlers :
    req[h].endpoint = "/moderate" =>
      /\ (Count(req[h].calls, "classifier") > 0
            \/ Count(req[h].calls, "insert") > 0) =>
           /\ ~ContentMissingOrNotString(req[h].content)
           /\ req[h].lookup = "ok"
           /\ KeyHasMatch(req[h].apikey)
           /\ req[h].calls[1] = "keystore"
           /\ req[h].calls[2] = "classifier"
           /\ Len(req[h].calls) = 3 => req[h].calls[3] = "insert"
      /\ req[h].status \in {400, 401, 403} =>
           /\ Count(req[h].calls, "classifier") = 0
           /\ Count(req[h].calls, "insert") = 0
      /\ req[h].status \in {400, 401} => Count(req[h].calls, "keystore") = 0

C9_Witness ==
  \E h \in Handlers :
    /\ req[h].endpoint = "/moderate"
    /\ req[h].pc = "inserting"
    /\ req[h].calls = <<"keystore", "classifier", "insert">>

\* C10 as claimed: POST /moderate answers 403 only when the apikey has no
\* exact match in the key store; when the key exists and the lookup itself
\* fails the request is answered 500.
C10_AsClaimed ==
  \A h \in Handlers :
    (req[h].endpoint = "/moderate" /\ req[h].pc = "done"
       /\ req[h].lookup # "none") =>
      /\ req[h].status = 403 => ~KeyHasMatch(req[h].apikey)
      /\ (KeyHasMatch(req[h].apikey) /\ req[h].lookup \in {"error", "throws"})
           => req[h].status = 500

\* C10, amended: POST /moderate answers 403 when the apikey has no exact
\* match in the key store and also when the key-store lookup itself fails
\* (the call returns an error or throws), whether or not the key exists; a
\* failed lookup is never answered 500, and 403 is answered in no other case.
C10_LookupFailureIs403 ==
  \A h \in Handlers :
    (req[h].endpoint = "/moderate" /\ req[h].pc = "done") =>
      /\ (req[h].lookup \in {"error", "throws"}
            \/ (req[h].lookup = "ok" /\ ~KeyHasMatch(req[h].apikey)))
           => req[h].status = 403
      /\ req[h].status = 403 =>
           (req[h].lookup \in {"error", "throws"}
              \/ (req[h].lookup = "ok" /\ ~KeyHasMatch(req[h].apikey)))

C10_Witness ==
  \E h \in Handlers :
    /\ req[h].endpoint = "/moderate"
    /\ KeyHasMatch(req[h].apikey)
    /\ req[h].lookup = "throws"
    /\ req[h].status = 403
====
